---- MODULE Spec2Model ----
(***************************************************************************)
(* A model of flying_state_machines/classes.py: the Transition objects,    *)
(* the FSM built from a set of them, FSM.input and the hook registries.    *)
(*                                                                         *)
(* Transition objects live in a heap (the sequence `transitions`); an      *)
(* object is named by its index, which stands for its Python identity.     *)
(* Hook lists are objects too (`hooklists`): list 0 is the list object of  *)
(* the default argument `hooks=[]` of Transition.__init__, list k > 0 is a *)
(* list the caller passed to the constructor of object k.                  *)
(*                                                                         *)
(* The caller's program has constructed the Transition objects of         *)
(* `transitions` before it builds a machine; a machine is built from any   *)
(* subset of them, in any iteration order of the set. Objects 1 and 3      *)
(* share a triple and differ in probability and hook list. Objects 5 to 7  *)
(* have a probability outside (0, 1].                                      *)
(*                                                                         *)
(* Spec is a caller that keeps to probabilities in (0, 1] and to hooks     *)
(* that return None or False. SpecProbability is a caller that builds      *)
(* machines from objects 3 to 7, SpecHooks one whose hooks also return 0   *)
(* or True or raise, SpecPack one that also queries, packs and unpacks,     *)
(* SpecReentrant one whose event hooks call input().                       *)
(*                                                                         *)
(* Probabilities are exact multiples of 1/PDenom; the draw of random() is  *)
(* r/PDenom with r in 0..PDenom-1, so it ranges over [0, 1). Float         *)
(* rounding is not modelled. Hooks log their call, with the fields of the   *)
(* machine they find, and return a value or raise; some event hooks call   *)
(* input() on the machine, one level deep.                                 *)
(*                                                                         *)
(* `last` is the caller's view of the latest call: what was called, which  *)
(* hooks ran, what came back. It is the only variable that is not program  *)
(* state.                                                                  *)
(***************************************************************************)
EXTENDS Integers, Sequences, FiniteSets, TLC

VARIABLES hooklists, constructed, rules, valid_transitions, event_hooks,
          initial_state, current, previous, next, last

vars == <<hooklists, constructed, rules, valid_transitions, event_hooks,
          initial_state, current, previous, next, last>>

\* ---------------------------------------------------------------- bounds
\* Hooks registered at any one time, over all lists.
MaxHooks == 2

\* ---------------------------------------------------------------- universe
States == {"A", "B"}
Events == {"e", "f"}
None == "None"
PDenom == 4
EventHookIds == {"veto", "ok"}
TransHookIds == {"g", "k"}

\* Further hooks a caller can register: "zero" returns the integer 0, "yes"
\* returns True, "boom" and "bang" raise.
OtherEventHookIds == {"veto", "ok", "zero", "yes", "boom"}
OtherTransHookIds == {"g", "bang"}

\* What the caller's event hook returns.
HookReturn(h) ==
    IF h = "veto" THEN "False"
    ELSE IF h = "zero" THEN "0"
    ELSE IF h = "yes" THEN "True"
    ELSE "None"

\* The hooks that raise instead of returning.
Raises(h) == h \in {"boom", "bang"}

\* Event hooks that call input() on the machine they are given and return
\* None: "again_e" calls fsm.input("e"), "again_f" calls fsm.input("f"). They
\* do so when called from an input() of the caller, not when called from the
\* input() they made themselves.
Reenters(h) == h \in {"again_e", "again_f"}

\* The event a re-entering hook gives to input().
Target(h) == IF h = "again_e" THEN "e" ELSE "f"

\* The event hooks of a caller whose hooks call input().
ReentrantHookIds == {"again_e", "again_f", "veto"}

\* ---------------------------------------------------------------- helpers
Range(s) == {s[i] : i \in 1..Len(s)}

Count(s, h) == Cardinality({i \in 1..Len(s) : s[i] = h})

\* list.remove(h): drops the first occurrence of h.
RemoveFirst(s, h) ==
    LET i == CHOOSE j \in 1..Len(s) : s[j] = h /\ \A m \in 1..(j-1) : s[m] # h
    IN  SubSeq(s, 1, i-1) \o SubSeq(s, i+1, Len(s))

\* A removal that forgets to remove.
ListRemoveMutant(s, h) == s

\* `if hook in hooks: hooks.remove(hook)` of Transition.remove_hook and
\* FSM.remove_event_hook.
ListRemove(s, h) == IF h \in Range(s) THEN RemoveFirst(s, h) ELSE s

\* ---------------------------------------------------------------- Transition
\* Transition.__init__ for the object of identity id: `own` tells whether the
\* caller passed a list of its own as hooks, or left the default argument.
NewTransition(id, f, e, t, p, own) ==
    [from_state |-> f, on_event |-> e, to_state |-> t, probability |-> p,
     hooks |-> IF own THEN id ELSE 0]

\* The Transition objects the caller's program has constructed.
transitions ==
    << NewTransition(1, "A", "e", "B", 2, FALSE),
       NewTransition(2, "A", "e", "A", 2, FALSE),
       NewTransition(3, "A", "e", "B", 1, TRUE),
       NewTransition(4, "B", "e", "A", 4, FALSE),
       NewTransition(5, "B", "f", "B", 0, FALSE),
       NewTransition(6, "B", "f", "A", 5, FALSE),
       NewTransition(7, "B", "f", "B", -1, FALSE) >>

Objects == 1..Len(transitions)

\* The objects whose probability is in the documented range (0, 1].
InRange ==
    {t \in Objects : 0 < transitions[t].probability /\ transitions[t].probability <= PDenom}

\* The hook list objects: the default argument's, and the callers' own.
Lists == {transitions[t].hooks : t \in Objects}

\* The identity triple the documentation speaks of.
Triple(t) == <<transitions[t].from_state, transitions[t].to_state, transitions[t].on_event>>

\* Transition.__hash__: the hash of the tuple (from_state, to_state, on_event).
Hash(t) == Triple(t)

\* Transition defines no __eq__: == is object identity.
Eq(t1, t2) == t1 = t2

\* `transition in self.rules` on a Python set: same hash, then identity or ==.
InRules(t) == \E u \in rules : Hash(u) = Hash(t) /\ Eq(u, t)

\* ---------------------------------------------------------------- FSM.__init__
\* An index keyed by the state alone.
IndexMutant(order, s, e) ==
    LET keep(t) == transitions[t].from_state = s
    IN  SelectSeq(order, keep)

\* The list built for one (from_state, on_event) key while iterating the set
\* self.rules; `order` is the iteration order of the set.
Index(order, s, e) ==
    LET keep(t) == transitions[t].from_state = s /\ transitions[t].on_event = e
    IN  SelectSeq(order, keep)

RECURSIVE Cumulative(_, _)
\* cumulative += tn.probability over the first i candidates (also sum([...])).
Cumulative(cands, i) ==
    IF i = 0 THEN 0 ELSE Cumulative(cands, i-1) + transitions[cands[i]].probability

\* A check of each rule's probability in place of the sum.
TotalProbabilityOKMutant(cands) ==
    \A i \in 1..Len(cands) : transitions[cands[i]].probability <= PDenom

\* assert total_probability <= 1.0, for one key of the index.
TotalProbabilityOK(cands) == Cumulative(cands, Len(cands)) <= PDenom

\* The iteration orders a set of objects can have.
Orders(rs) ==
    {o \in [1..Cardinality(rs) -> rs] : \A i, j \in 1..Cardinality(rs) : i # j => o[i] # o[j]}

\* ---------------------------------------------------------------- FSM queries
\* A lookup that ignores the event given.
wouldMutant(event) ==
    IF <<current, "e">> \in DOMAIN valid_transitions
    THEN valid_transitions[<<current, "e">>]
    ELSE <<>>

\* FSM.would(event): the candidates of (current, event), none when a key is
\* missing.
would(event) ==
    IF <<current, event>> \in DOMAIN valid_transitions
    THEN valid_transitions[<<current, event>>]
    ELSE <<>>

\* A query that wants a choice between candidates.
canMutant(event) == Len(would(event)) > 1

can(event) == Len(would(event)) > 0

\* ---------------------------------------------------------------- pack / unpack
\* States are members of an Enum class; None is not. pack writes an Enum
\* member as the list [class name, value] and anything else as it is; here
\* both are records, `islist` telling which: a list carries the class name
\* and the value, another object is carried in `name`.
ClassName(x) == "State"
Value(x) == IF x = "A" THEN 1 ELSE 2

\* The registry given as `inject`: class name -> (value -> member).
inject == [c \in {"State"} |-> [v \in {1, 2} |-> IF v = 1 THEN "A" ELSE "B"]]

\* isinstance(x, Enum).
IsEnum(x) == x \in States

\* Lines 283-298 (FSM.pack) for one field.
PackField(x) ==
    IF IsEnum(x)
    THEN [islist |-> TRUE, name |-> ClassName(x), value |-> Value(x)]
    ELSE [islist |-> FALSE, name |-> x, value |-> 0]

\* A decoder that takes the first member of the class whatever the value.
UnpackFieldMutant(d, dependencies) ==
    IF d.islist THEN dependencies[d.name][1] ELSE d.name

\* Lines 328-343 (FSM.unpack) for one field: enumclass(value) for a list.
UnpackField(d, dependencies) ==
    IF d.islist THEN dependencies[d.name][d.value] ELSE d.name

\* Transition.pack of object t; events are strings and packed as they are.
PackTransition(t) ==
    [from_state |-> PackField(transitions[t].from_state),
     to_state |-> PackField(transitions[t].to_state),
     on_event |-> transitions[t].on_event,
     probability |-> transitions[t].probability]

\* FSM.pack: what is handed to packify's pack.
pack ==
    [rules |-> {PackTransition(t) : t \in rules},
     initial_state |-> PackField(initial_state),
     current |-> PackField(current),
     previous |-> PackField(previous),
     next |-> PackField(next)]

\* ---------------------------------------------------------------- FSM.input parts
\* A comparison `choice <= probability` in place of `choice < probability`.
SelectFirstMutant(cands, r) ==
    LET hit == {i \in 1..Len(cands) : r <= Cumulative(cands, i)}
    IN  IF hit = {} THEN 0
        ELSE cands[CHOOSE i \in hit : \A j \in hit : i <= j]

\* The loop over the cumulative breakpoints: the first candidate whose
\* breakpoint exceeds the draw, 0 (None) when the loop ends without a break.
SelectFirst(cands, r) ==
    LET hit == {i \in 1..Len(cands) : r < Cumulative(cands, i)}
    IN  IF hit = {} THEN 0
        ELSE cands[CHOOSE i \in hit : \A j \in hit : i <= j]

\* A resolution without the branch for a single candidate.
ResolveMutant(cands, r) == IF Len(cands) > 1 THEN SelectFirst(cands, r) ELSE 0

\* `transition` after lines 225-240: one candidate is taken without a draw.
Resolve(cands, r) ==
    IF Len(cands) = 1 THEN cands[1]
    ELSE IF Len(cands) > 1 THEN SelectFirst(cands, r)
    ELSE 0

\* The hooks registered for an event. A key that is absent from the dict
\* _event_hooks is the empty list here: add_event_hook, remove_event_hook and
\* input treat the two alike.
EventHooksOf(event) == event_hooks[event]

\* A test `== False` in place of `is False`: in Python 0 == False.
IsFalseMutant(v) == v \in {"False", "0"}

\* `hook(event, self, data) is False`: the returned object is the boolean False.
IsFalse(v) == v = "False"

\* A loop in which each hook overwrites `canceled`: the last hook decides.
CanceledMutant(event) ==
    LET hs == EventHooksOf(event)
    IN  Len(hs) > 0 /\ IsFalse(HookReturn(hs[Len(hs)]))

\* `canceled` after the loop over the event's hooks: some hook returned False.
Canceled(event) ==
    \E i \in 1..Len(EventHooksOf(event)) : IsFalse(HookReturn(EventHooksOf(event)[i]))

\* The calls made by the loop over the event's hooks, in order.
EventCalls(event) ==
    [i \in 1..Len(EventHooksOf(event)) |->
        [kind |-> "event", hook |-> EventHooksOf(event)[i], ev |-> event, tid |-> 0, lst |-> -1]]

\* A trigger that walks the list from its end.
TriggerMutant(t) ==
    LET hs == hooklists[transitions[t].hooks]
    IN  [i \in 1..Len(hs) |->
            [kind |-> "transition", hook |-> hs[Len(hs) + 1 - i], ev |-> "", tid |-> t,
             lst |-> transitions[t].hooks]]

\* Transition.trigger: every hook of the list the object refers to, in order.
Trigger(t) ==
    LET hs == hooklists[transitions[t].hooks]
    IN  [i \in 1..Len(hs) |->
            [kind |-> "transition", hook |-> hs[i], ev |-> "", tid |-> t,
             lst |-> transitions[t].hooks]]

\* A loop that goes on after a hook has raised.
UpToRaiseMutant(calls) == calls

\* An exception ends the loop that calls the hooks: the calls made are those
\* up to the first hook that raises, that one included.
UpToRaise(calls) ==
    LET bad == {i \in 1..Len(calls) : Raises(calls[i].hook)}
    IN  IF bad = {} THEN calls
        ELSE SubSeq(calls, 1, CHOOSE i \in bad : \A j \in bad : i <= j)

\* Some hook of the loop raises.
SomeRaise(calls) == \E i \in 1..Len(calls) : Raises(calls[i].hook)

\* The calls of a loop together with the fields each hook finds in the
\* machine when it is called: seen[i] holds current, previous and next at
\* the i-th call.
At(calls, seen) ==
    [i \in 1..Len(calls) |->
        [kind |-> calls[i].kind, hook |-> calls[i].hook, ev |-> calls[i].ev,
         tid |-> calls[i].tid, lst |-> calls[i].lst,
         cur |-> seen[i].current, prev |-> seen[i].previous, nxt |-> seen[i].next]]

\* The fields of a machine.
Fields(c, p, n) == [current |-> c, previous |-> p, next |-> n]

\* FSM.would(event) when current is c.
WouldIn(c, event) ==
    IF <<c, event>> \in DOMAIN valid_transitions
    THEN valid_transitions[<<c, event>>]
    ELSE <<>>

\* A commit that leaves next as it is.
CommitMutant(m) == Fields(m.next, m.current, m.next)

\* Lines 252-254 on the fields m: previous = current, current = next,
\* next = None.
Commit(m) == Fields(m.next, m.current, None)

\* FSM.input(event) entered from an event hook, on the fields m the hook
\* finds; r is the value random() returns if it is called. The hooks it
\* calls do not call input() again. The result is the fields it leaves, the
\* Transition it selected, whether it committed, and the exception it
\* raised, if any.
InnerInput(event, r, m) ==
    LET possible == WouldIn(m.current, event)
        n == Len(possible)
        transition == Resolve(possible, r)
        next1 == IF transition # 0 THEN transitions[transition].to_state ELSE m.next
        m1 == Fields(m.current, m.previous, next1)
    IN  IF n > 1 /\ transition = 0
        THEN [fields |-> m, event |-> event, selected |-> 0, committed |-> FALSE,
              raised |-> "AttributeError"]
        ELSE IF SomeRaise(EventCalls(event))
        THEN [fields |-> m1, event |-> event, selected |-> transition,
              committed |-> FALSE, raised |-> "HookError"]
        ELSE IF Canceled(event)
        THEN [fields |-> m1, event |-> event, selected |-> transition,
              committed |-> FALSE, raised |-> ""]
        ELSE IF transition # 0
        THEN [fields |-> Commit(m1), event |-> event, selected |-> transition,
              committed |-> TRUE,
              raised |-> IF SomeRaise(Trigger(transition)) THEN "HookError" ELSE ""]
        ELSE [fields |-> m1, event |-> event, selected |-> 0, committed |-> FALSE,
              raised |-> ""]

RECURSIVE AfterHooks(_, _, _, _)
\* The loop of lines 245-247 from its i-th call on: `at` holds the fields of
\* the machine, the fields each hook called so far has found (seen), the
\* input() calls made by hooks so far (nested) and the exception an input()
\* made by a hook has raised, which ends the loop; inner[i] is the value
\* random() returns inside the input() made by the i-th hook.
AfterHooks(calls, i, inner, at) ==
    IF i > Len(calls) \/ at.raised # "" THEN at
    ELSE IF Reenters(calls[i].hook)
    THEN LET res == InnerInput(Target(calls[i].hook), inner[i], at.fields)
         IN  AfterHooks(calls, i + 1, inner,
                        [fields |-> res.fields, seen |-> Append(at.seen, at.fields),
                         nested |-> Append(at.nested, res), raised |-> res.raised])
    ELSE AfterHooks(calls, i + 1, inner, [at EXCEPT !.seen = Append(@, at.fields)])

\* The loop of lines 245-247 on a machine of fields m: hooks that do not call
\* input() all find the fields m and leave them.
HookLoop(calls, inner, m) ==
    IF \A i \in 1..Len(calls) : ~Reenters(calls[i].hook)
    THEN [fields |-> m, seen |-> [i \in 1..Len(calls) |-> m], nested |-> <<>>,
          raised |-> ""]
    ELSE AfterHooks(calls, 1, inner,
                    [fields |-> m, seen |-> <<>>, nested |-> <<>>, raised |-> ""])

\* ---------------------------------------------------------------- observation
\* What the caller saw of the last call: its arguments, the hooks it invoked
\* (calls), its result (ret, cands for would, truth for can, packed for pack)
\* or the exception it raised; for input also the
\* state it started in (cur0), the number of candidates and the draw; for a
\* removal whether the hook was in the list (found) and how often it still is
\* (left).
NoCall ==
    [op |-> "none", event |-> "", hook |-> "", tid |-> 0, arg |-> {}, raised |-> "",
     cur0 |-> None, ncand |-> 0, choice |-> -1, selected |-> 0, calls |-> <<>>,
     ret |-> None, found |-> FALSE, left |-> 0,
     cands |-> <<>>, truth |-> FALSE, nested |-> <<>>,
     packed |-> [rules |-> {}, initial_state |-> PackField(None),
                 current |-> PackField(None), previous |-> PackField(None),
                 next |-> PackField(None)]]

\* Hooks registered, over every list.
RECURSIVE SumLen(_, _)
SumLen(f, S) ==
    IF S = {} THEN 0
    ELSE LET x == CHOOSE y \in S : TRUE IN Len(f[x]) + SumLen(f, S \ {x})

TotalHooks == SumLen(hooklists, DOMAIN hooklists) + SumLen(event_hooks, DOMAIN event_hooks)

\* The values random() can return where input calls it: none where it does not.
Draws(event) == IF Len(would(event)) > 1 THEN 0..(PDenom - 1) ELSE {0}

\* The hook calls input() with an event for which some state has several
\* candidates: only then can that input() call random().
MayDraw(h) ==
    /\ Reenters(h)
    /\ \E st \in States : Len(valid_transitions[<<st, Target(h)>>]) > 1

\* The values random() can return inside the input() calls made by the hooks
\* of an event, one for each hook of the list: none for a hook whose call
\* cannot reach random().
InnerDraws(event) ==
    LET hs == event_hooks[event]
    IN  IF \A i \in 1..Len(hs) : ~MayDraw(hs[i])
        THEN {[i \in 1..Len(hs) |-> 0]}
        ELSE {d \in [1..Len(hs) -> 0..(PDenom - 1)] :
                \A i \in 1..Len(hs) : ~MayDraw(hs[i]) => d[i] = 0}

\* Transition.add_hook(hook) on object t: appends to the list t.hooks refers to.
add_hook(t, h) == [hooklists EXCEPT ![transitions[t].hooks] = Append(@, h)]

\* Transition.remove_hook(hook) on object t.
remove_hook(t, h) == [hooklists EXCEPT ![transitions[t].hooks] = ListRemove(@, h)]

\* ---------------------------------------------------------------- actions
Init ==
    /\ hooklists = [l \in Lists |-> <<>>]
    /\ constructed = FALSE
    /\ rules = {}
    /\ valid_transitions = [k \in States \X Events |-> <<>>]
    /\ event_hooks = [e \in Events |-> <<>>]
    /\ initial_state = None
    /\ current = None
    /\ previous = None
    /\ next = None
    /\ last = NoCall

\* A subclass sets self.rules and self.initial_state and calls FSM.__init__.
Construct(rs, order, init) ==
    /\ ~constructed
    /\ order \in Orders(rs)
    /\ IF \A k \in States \X Events : TotalProbabilityOK(Index(order, k[1], k[2]))
       THEN /\ constructed' = TRUE
            /\ rules' = rs
            /\ valid_transitions' = [k \in States \X Events |-> Index(order, k[1], k[2])]
            /\ event_hooks' = [e \in Events |-> <<>>]
            /\ initial_state' = init
            /\ current' = init
            /\ previous' = None
            /\ next' = None
            /\ last' = [NoCall EXCEPT !.op = "construct", !.arg = rs]
       ELSE /\ last' = [NoCall EXCEPT !.op = "construct", !.arg = rs,
                                      !.raised = "AssertionError"]
            /\ UNCHANGED <<constructed, rules, valid_transitions, event_hooks,
                           initial_state, current, previous, next>>
    /\ UNCHANGED hooklists

\* FSM.input(event): r is the value random() returns if it is called, inner
\* the values it returns inside the input() calls made by the event's hooks.
Input(event, r, inner) ==
    LET possible == would(event)
        n == Len(possible)
        transition == Resolve(possible, r)
        seen == [NoCall EXCEPT !.op = "input", !.event = event, !.cur0 = current,
                               !.ncand = n, !.choice = IF n > 1 THEN r ELSE -1]
    IN  /\ constructed
        /\ IF n > 1 /\ transition = 0
           THEN \* self.next = transition.to_state with transition None
                /\ last' = [seen EXCEPT !.raised = "AttributeError"]
                /\ UNCHANGED <<current, previous, next>>
           ELSE LET next1 == IF transition # 0 THEN transitions[transition].to_state ELSE next
                    hooks == UpToRaise(EventCalls(event))
                IN  \* `at` is the machine once the loop over the event's hooks has ended
                    \E at \in {HookLoop(hooks, inner, Fields(current, previous, next1))} :
                    LET before == At(SubSeq(hooks, 1, Len(at.seen)), at.seen)
                        after == Commit(at.fields)
                    IN
                    IF SomeRaise(EventCalls(event)) \/ at.raised # ""
                    THEN \* the exception leaves input at line 246
                         /\ current' = at.fields.current
                         /\ previous' = at.fields.previous
                         /\ next' = at.fields.next
                         /\ last' = [seen EXCEPT !.selected = transition,
                                                 !.calls = before,
                                                 !.nested = at.nested,
                                                 !.raised = IF at.raised # "" THEN at.raised
                                                            ELSE "HookError"]
                    ELSE IF Canceled(event)
                    THEN /\ current' = at.fields.current
                         /\ previous' = at.fields.previous
                         /\ next' = at.fields.next
                         /\ last' = [seen EXCEPT !.selected = transition,
                                                 !.calls = before,
                                                 !.nested = at.nested,
                                                 !.ret = at.fields.current]
                    ELSE IF transition # 0
                    THEN /\ previous' = after.previous
                         /\ current' = after.current
                         /\ next' = after.next
                         /\ last' = [seen EXCEPT
                                !.selected = transition,
                                !.calls = before \o
                                    At(UpToRaise(Trigger(transition)),
                                       [i \in 1..Len(Trigger(transition)) |-> after]),
                                !.nested = at.nested,
                                !.raised = IF SomeRaise(Trigger(transition))
                                           THEN "HookError" ELSE "",
                                !.ret = IF SomeRaise(Trigger(transition))
                                        THEN None ELSE after.current]
                    ELSE /\ current' = at.fields.current
                         /\ previous' = at.fields.previous
                         /\ next' = at.fields.next
                         /\ last' = [seen EXCEPT !.calls = before,
                                                 !.nested = at.nested,
                                                 !.ret = at.fields.current]
        /\ UNCHANGED <<hooklists, constructed, rules, valid_transitions,
                       event_hooks, initial_state>>

\* FSM.add_event_hook(event, hook).
AddEventHook(event, h) ==
    /\ constructed
    /\ TotalHooks < MaxHooks
    /\ event_hooks' = [event_hooks EXCEPT ![event] = Append(@, h)]
    /\ last' = [NoCall EXCEPT !.op = "add_event_hook", !.event = event, !.hook = h]
    /\ UNCHANGED <<hooklists, constructed, rules, valid_transitions,
                   initial_state, current, previous, next>>

\* FSM.remove_event_hook(event, hook).
RemoveEventHook(event, h) ==
    /\ constructed
    /\ event_hooks' = [event_hooks EXCEPT ![event] = ListRemove(@, h)]
    /\ last' = [NoCall EXCEPT !.op = "remove_event_hook", !.event = event, !.hook = h,
                              !.found = h \in Range(event_hooks[event]),
                              !.left = Count(event_hooks'[event], h)]
    /\ UNCHANGED <<hooklists, constructed, rules, valid_transitions,
                   initial_state, current, previous, next>>

\* FSM.add_transition_hook(transition, hook), transition being object t.
AddTransitionHook(t, h) ==
    /\ constructed
    /\ IF InRules(t)
       THEN /\ TotalHooks < MaxHooks
            /\ hooklists' = add_hook(t, h)
            /\ last' = [NoCall EXCEPT !.op = "add_transition_hook", !.tid = t, !.hook = h]
       ELSE /\ last' = [NoCall EXCEPT !.op = "add_transition_hook", !.tid = t, !.hook = h,
                                      !.raised = "AssertionError"]
            /\ UNCHANGED hooklists
    /\ UNCHANGED <<constructed, rules, valid_transitions, event_hooks,
                   initial_state, current, previous, next>>

\* FSM.remove_transition_hook(transition, hook), transition being object t.
RemoveTransitionHook(t, h) ==
    /\ constructed
    /\ IF InRules(t)
       THEN /\ hooklists' = remove_hook(t, h)
            /\ last' = [NoCall EXCEPT !.op = "remove_transition_hook", !.tid = t, !.hook = h,
                                      !.found = h \in Range(hooklists[transitions[t].hooks]),
                                      !.left = Count(hooklists'[transitions[t].hooks], h)]
       ELSE /\ last' = [NoCall EXCEPT !.op = "remove_transition_hook", !.tid = t, !.hook = h,
                                      !.raised = "AssertionError"]
            /\ UNCHANGED hooklists
    /\ UNCHANGED <<constructed, rules, valid_transitions, event_hooks,
                   initial_state, current, previous, next>>

\* FSM.would(event), called by the caller.
Would(event) ==
    /\ constructed
    /\ last' = [NoCall EXCEPT !.op = "would", !.event = event, !.cands = would(event)]
    /\ UNCHANGED <<hooklists, constructed, rules, valid_transitions, event_hooks,
                   initial_state, current, previous, next>>

\* FSM.can(event), called by the caller.
Can(event) ==
    /\ constructed
    /\ last' = [NoCall EXCEPT !.op = "can", !.event = event, !.truth = can(event)]
    /\ UNCHANGED <<hooklists, constructed, rules, valid_transitions, event_hooks,
                   initial_state, current, previous, next>>

\* FSM.pack().
Pack ==
    /\ constructed
    /\ last' = [NoCall EXCEPT !.op = "pack", !.packed = pack]
    /\ UNCHANGED <<hooklists, constructed, rules, valid_transitions, event_hooks,
                   initial_state, current, previous, next>>

\* m = M.unpack(m.pack(), inject=...): the machine is replaced by the one
\* decoded from its own bytes. unpack builds the machine with cls(), from the
\* rules of the class, and then sets the four fields from the data. When the
\* bytes are decoded in the process that packed them (~fresh), cls() iterates
\* the same set of the same Transition objects; in another process (fresh)
\* the program has built its Transition objects anew, so their hook lists
\* are as constructed, and the set iterates in an order of its own (hashes
\* of strings and Enum members differ from process to process).
Unpack(order, fresh) ==
    LET data == pack
    IN  /\ constructed
        /\ order \in Orders(rules)
        /\ fresh \/ \A k \in States \X Events : Index(order, k[1], k[2]) = valid_transitions[k]
        /\ valid_transitions' = [k \in States \X Events |-> Index(order, k[1], k[2])]
        /\ event_hooks' = [e \in Events |-> <<>>]
        /\ hooklists' = IF fresh THEN [l \in Lists |-> <<>>] ELSE hooklists
        /\ initial_state' = UnpackField(data.initial_state, inject)
        /\ current' = UnpackField(data.current, inject)
        /\ previous' = UnpackField(data.previous, inject)
        /\ next' = UnpackField(data.next, inject)
        /\ last' = [NoCall EXCEPT !.op = "unpack", !.packed = data]
        /\ UNCHANGED <<constructed, rules>>

Next ==
    \/ \E rs \in SUBSET InRange, init \in States :
          \E order \in Orders(rs) : Construct(rs, order, init)
    \/ \E e \in Events : \E r \in Draws(e), inner \in InnerDraws(e) : Input(e, r, inner)
    \/ \E e \in Events, h \in EventHookIds : AddEventHook(e, h)
    \/ \E e \in Events, h \in EventHookIds : RemoveEventHook(e, h)
    \/ \E t \in InRange, h \in TransHookIds : AddTransitionHook(t, h)
    \/ \E t \in InRange, h \in TransHookIds : RemoveTransitionHook(t, h)

Spec == Init /\ [][Next]_vars

\* ---------------------------------------------------------------- other callers
\* A caller that also builds machines from Transitions whose probability is
\* outside (0, 1]: Transition.__init__ accepts any float.
NextProbability ==
    \/ \E rs \in SUBSET (Objects \ {1, 2}), init \in States :
          \E order \in Orders(rs) : Construct(rs, order, init)
    \/ \E e \in Events : \E r \in Draws(e), inner \in InnerDraws(e) : Input(e, r, inner)

SpecProbability == Init /\ [][NextProbability]_vars

\* A caller that builds its machine from objects 2, 3 and 4 and registers
\* hooks of every kind, those for events on event "e".
NextHooks ==
    \/ \E rs \in SUBSET {2, 3, 4}, init \in States :
          \E order \in Orders(rs) : Construct(rs, order, init)
    \/ \E e \in Events : \E r \in Draws(e), inner \in InnerDraws(e) : Input(e, r, inner)
    \/ \E h \in OtherEventHookIds : AddEventHook("e", h)
    \/ \E h \in OtherEventHookIds : RemoveEventHook("e", h)
    \/ \E t \in {2, 3, 4}, h \in OtherTransHookIds : AddTransitionHook(t, h)
    \/ \E t \in {2, 3, 4}, h \in OtherTransHookIds : RemoveTransitionHook(t, h)

SpecHooks == Init /\ [][NextHooks]_vars

\* A caller that builds its machine from objects 1, 2 and 4 and registers
\* event hooks that call input().
NextReentrant ==
    \/ \E rs \in SUBSET {1, 2, 4}, init \in States :
          \E order \in Orders(rs) : Construct(rs, order, init)
    \/ \E e \in Events : \E r \in Draws(e), inner \in InnerDraws(e) : Input(e, r, inner)
    \/ \E e \in Events, h \in ReentrantHookIds : AddEventHook(e, h)
    \/ \E e \in Events, h \in ReentrantHookIds : RemoveEventHook(e, h)

SpecReentrant == Init /\ [][NextReentrant]_vars

\* A caller that builds its machine from objects 1, 2 and 4, queries it,
\* packs it and replaces it by the machine unpacked from its bytes.
NextPack ==
    \/ \E rs \in SUBSET {1, 2, 4}, init \in States :
          \E order \in Orders(rs) : Construct(rs, order, init)
    \/ \E e \in Events : \E r \in Draws(e), inner \in InnerDraws(e) : Input(e, r, inner)
    \/ \E e \in Events, h \in EventHookIds : AddEventHook(e, h)
    \/ \E e \in Events, h \in EventHookIds : RemoveEventHook(e, h)
    \/ \E t \in {1, 2, 4}, h \in TransHookIds : AddTransitionHook(t, h)
    \/ \E t \in {1, 2, 4}, h \in TransHookIds : RemoveTransitionHook(t, h)
    \/ \E e \in Events : Would(e)
    \/ \E e \in Events : Can(e)
    \/ Pack
    \/ \E order \in Orders(rules), fresh \in BOOLEAN : Unpack(order, fresh)

SpecPack == Init /\ [][NextPack]_vars

\* ---------------------------------------------------------------- reading `last`
IsInput == last.op = "input"

\* Some event hook called by the last input returned False.
Vetoed ==
    \E i \in 1..Len(last.calls) :
        last.calls[i].kind = "event" /\ HookReturn(last.calls[i].hook) = "False"

IsEventCall(c) == c.kind = "event"
IsTransitionCall(c) == c.kind = "transition"

\* The hooks the last input invoked, in order: the event's, the Transition's.
EventHooksCalled == [i \in 1..Len(SelectSeq(last.calls, IsEventCall)) |->
                        SelectSeq(last.calls, IsEventCall)[i].hook]
TransitionHooksCalled == [i \in 1..Len(SelectSeq(last.calls, IsTransitionCall)) |->
                            SelectSeq(last.calls, IsTransitionCall)[i].hook]

\* The rules of the machine for a state and an event.
RulesFor(s, e) ==
    {t \in rules : transitions[t].from_state = s /\ transitions[t].on_event = e}

\* The candidates the last input started from, in the index's stored order.
Candidates0 == valid_transitions[<<last.cur0, last.event>>]

RECURSIVE SumProbability(_)
SumProbability(S) ==
    IF S = {} THEN 0
    ELSE LET t == CHOOSE x \in S : TRUE
         IN  transitions[t].probability + SumProbability(S \ {t})

\* ---------------------------------------------------------------- C1
\* C1: when (current, event) has a candidate and an event hook returns False
\* during input(event), current and previous are what they were before the
\* call, input returns that current, and no Transition hook has been invoked.
C1_CancelLeavesState ==
    [][ (last'.op = "input" /\ RulesFor(current, last'.event) # {} /\ Vetoed')
        => /\ current' = current
           /\ previous' = previous
           /\ last'.raised = ""
           /\ last'.ret = current
           /\ TransitionHooksCalled' = <<>> ]_vars

\* A cancelled input whose selected Transition has a hook registered.
C1_Witness ==
    /\ IsInput /\ Vetoed
    /\ last.selected # 0
    /\ hooklists[transitions[last.selected].hooks] # <<>>
    /\ transitions[last.selected].to_state # current

\* ---------------------------------------------------------------- C2
\* C2: with exactly one candidate and no cancelling hook, input(event) commits
\* the candidate whatever its probability: previous is the prior current,
\* current the candidate's to_state, which input returns, and the candidate's
\* hooks are invoked; a self-loop is committed like any other transition.
C2_SingleCandidateCommits ==
    [][ (last'.op = "input" /\ Cardinality(RulesFor(current, last'.event)) = 1 /\ ~Vetoed')
        => LET t == CHOOSE x \in RulesFor(current, last'.event) : TRUE
           IN  /\ previous' = current
               /\ current' = transitions[t].to_state
               /\ next' = None
               /\ last'.raised = ""
               /\ last'.ret = current'
               /\ last'.selected = t
               /\ TransitionHooksCalled' = hooklists[transitions[t].hooks] ]_vars

\* A committed self-loop of probability 1/2 whose hook was invoked.
C2_Witness ==
    /\ IsInput /\ last.ncand = 1 /\ ~Vetoed
    /\ last.selected # 0
    /\ transitions[last.selected].probability < PDenom
    /\ transitions[last.selected].to_state = last.cur0
    /\ current = last.cur0 /\ previous = last.cur0
    /\ TransitionHooksCalled # <<>>

\* ---------------------------------------------------------------- C3
\* The candidate at index i is the first whose cumulative probability exceeds r.
FirstExceeding(cands, r, i) ==
    /\ r < Cumulative(cands, i)
    /\ \A j \in 1..(i-1) : r >= Cumulative(cands, j)

\* C3: with more than one candidate, input draws one r in [0,1) and selects
\* the first candidate, in stored order, whose cumulative probability exceeds
\* r; when the candidates sum to 1 an input that is not cancelled commits
\* exactly one of them, so current is then the to_state of a candidate.
C3_WeightedSelection ==
    (IsInput /\ last.ncand > 1)
    => /\ last.choice \in 0..(PDenom - 1)
       /\ Len(Candidates0) = last.ncand
       /\ last.selected # 0 =>
             \E i \in 1..Len(Candidates0) :
                /\ Candidates0[i] = last.selected
                /\ FirstExceeding(Candidates0, last.choice, i)
       /\ Cumulative(Candidates0, Len(Candidates0)) = PDenom =>
             /\ last.raised = ""
             /\ last.selected # 0
             /\ ~Vetoed =>
                   /\ current = transitions[last.selected].to_state
                   /\ previous = last.cur0
                   /\ \E i \in 1..Len(Candidates0) :
                         current = transitions[Candidates0[i]].to_state

\* A draw of 1/2 or more over two candidates of 1/2 each commits the second.
C3_Witness ==
    /\ IsInput /\ last.ncand = 2 /\ ~Vetoed
    /\ Cumulative(Candidates0, 2) = PDenom
    /\ last.choice >= Cumulative(Candidates0, 1)
    /\ last.selected = Candidates0[2]
    /\ current = transitions[Candidates0[2]].to_state
    /\ current # transitions[Candidates0[1]].to_state

\* ---------------------------------------------------------------- C4
\* C4: with more than one candidate summing to less than 1 and the draw in the
\* uncovered tail, input selects nothing and returns normally, current being
\* unchanged and no Transition hook invoked; it raises no error.
C4_TailDrawIsInert ==
    (/\ IsInput /\ last.ncand > 1
     /\ Cumulative(Candidates0, Len(Candidates0)) < PDenom
     /\ last.choice >= Cumulative(Candidates0, Len(Candidates0)))
    => /\ last.raised = ""
       /\ last.ret = current
       /\ current = last.cur0
       /\ TransitionHooksCalled = <<>>

\* ---------------------------------------------------------------- C5
\* C5: with no rule for (current, event), input(event) raises nothing, returns
\* current, leaves current and previous as they were and invokes no
\* Transition hook, also for an event that no rule names.
C5_NoCandidateNoOp ==
    [][ (last'.op = "input" /\ RulesFor(current, last'.event) = {})
        => /\ last'.raised = ""
           /\ last'.ret = current
           /\ current' = current
           /\ previous' = previous
           /\ last'.selected = 0
           /\ TransitionHooksCalled' = <<>> ]_vars

\* An event no rule names, in a state that has rules for another event, with
\* an event hook that ran.
C5_Witness ==
    /\ IsInput /\ last.ncand = 0 /\ last.raised = ""
    /\ \A t \in rules : transitions[t].on_event # last.event
    /\ \E t \in rules : transitions[t].from_state = last.cur0
    /\ EventHooksCalled # <<>>
    /\ hooklists[0] # <<>>

\* ---------------------------------------------------------------- C6
\* C6: after every input() that returns normally (committed, cancelled or
\* without candidate) next is null.
C6_NextIsTransient == (IsInput /\ last.raised = "") => next = None

\* ---------------------------------------------------------------- C7
\* A removal that returned: remove_event_hook, or remove_transition_hook (which
\* calls Transition.remove_hook).
Removal(l) == l.op \in {"remove_event_hook", "remove_transition_hook"} /\ l.raised = ""

\* The input seen as `after` invoked the hook of the removal `rem` from the
\* list the removal was made on.
FiredFrom(rem, after) ==
    \E i \in 1..Len(after.calls) :
        /\ after.calls[i].hook = rem.hook
        /\ IF rem.op = "remove_event_hook"
           THEN after.calls[i].kind = "event" /\ after.calls[i].ev = rem.event
           ELSE /\ after.calls[i].kind = "transition"
                /\ after.calls[i].lst = transitions[rem.tid].hooks

\* list `new` is list `old` without its first occurrence of h, or `old` itself
\* when h does not occur in it.
FirstOccurrenceGone(old, new, h) ==
    IF \A i \in 1..Len(old) : old[i] # h
    THEN new = old
    ELSE \E i \in 1..Len(old) :
            /\ old[i] = h
            /\ \A j \in 1..(i-1) : old[j] # h
            /\ Len(new) = Len(old) - 1
            /\ \A j \in 1..Len(new) : new[j] = IF j < i THEN old[j] ELSE old[j+1]

\* C7 as stated: after a removal of h has returned, the next input does not
\* invoke h from that list, whatever adds and removes came before.
C7_RemovedHookNeverFires ==
    [][ (Removal(last) /\ last'.op = "input") => ~FiredFrom(last, last') ]_vars

\* C7 amended: a removal takes the first occurrence of h out of its list and
\* leaves every other entry of every list in place (nothing changes when h is
\* absent); once no occurrence is left the next input does not invoke h from
\* that list, and that input invokes every hook still registered for its
\* event and, when it commits, every hook still in the Transition's list.
C7_RemovalTakesOneOccurrence ==
    [][ /\ (Removal(last) /\ last.left = 0 /\ last'.op = "input")
           => ~FiredFrom(last, last')
        /\ (last'.op = "remove_event_hook" /\ last'.raised = "")
           => /\ hooklists' = hooklists
              /\ \A e \in Events :
                    IF e = last'.event
                    THEN FirstOccurrenceGone(event_hooks[e], event_hooks'[e], last'.hook)
                    ELSE event_hooks'[e] = event_hooks[e]
        /\ (last'.op = "remove_transition_hook" /\ last'.raised = "")
           => /\ event_hooks' = event_hooks
              /\ \A l \in Lists :
                    IF l = transitions[last'.tid].hooks
                    THEN FirstOccurrenceGone(hooklists[l], hooklists'[l], last'.hook)
                    ELSE hooklists'[l] = hooklists[l]
        /\ (Removal(last) /\ last'.op = "input" /\ last'.raised = "")
           => /\ EventHooksCalled' = event_hooks[last'.event]
              /\ (last'.selected # 0 /\ ~Vetoed')
                 => TransitionHooksCalled' = hooklists[transitions[last'.selected].hooks]
      ]_vars

\* A hook was removed from the list of a rule that the current state can take,
\* no occurrence of it is left and another hook is still in the list.
C7_Witness ==
    /\ last.op = "remove_transition_hook" /\ last.raised = ""
    /\ last.found /\ last.left = 0
    /\ hooklists[transitions[last.tid].hooks] # <<>>
    /\ transitions[last.tid].from_state = current

\* ---------------------------------------------------------------- C8
\* C8: two Transitions with the same (from_state, to_state, on_event) compare
\* equal and hash identically, whatever their probability and hooks, so the
\* rules of a machine hold at most one Transition per triple; Transitions
\* with different triples are not equal.
C8_IdentityIsTheTriple ==
    \A t1 \in rules, t2 \in rules :
        /\ Triple(t1) = Triple(t2) => (Eq(t1, t2) /\ Hash(t1) = Hash(t2) /\ t1 = t2)
        /\ Triple(t1) # Triple(t2) => ~Eq(t1, t2)

\* ---------------------------------------------------------------- C9
\* C9: add_transition_hook(t, hook) and remove_transition_hook(t, hook) fail
\* exactly when no rule of the machine has t's triple; they accept a t that
\* is another object than the rule stored in the machine.
C9_HookByTriple ==
    (last.op \in {"add_transition_hook", "remove_transition_hook"})
    => (last.raised # "" <=> ~ \E u \in rules : Triple(u) = Triple(last.tid))

\* ---------------------------------------------------------------- C10
\* C10: FSM construction fails and produces no machine whenever the rules of
\* some (from_state, on_event) pair sum to more than 1; in every constructed
\* machine the candidates of every key of the index sum to at most 1, after
\* any input and hook operations.
C10_ProbabilitySumChecked ==
    /\ (/\ last.op = "construct"
        /\ \E k \in States \X Events :
              SumProbability({t \in last.arg : /\ transitions[t].from_state = k[1]
                                               /\ transitions[t].on_event = k[2]}) > PDenom)
       => (last.raised = "AssertionError" /\ ~constructed)
    /\ constructed
       => \A k \in States \X Events :
             /\ Range(valid_transitions[k]) = RulesFor(k[1], k[2])
             /\ Len(valid_transitions[k]) = Cardinality(RulesFor(k[1], k[2]))
             /\ SumProbability(RulesFor(k[1], k[2])) <= PDenom

\* A construction refused for the sum of a pair whose rules are each below 1.
C10_Witness ==
    /\ last.op = "construct" /\ last.raised = "AssertionError" /\ ~constructed
    /\ \A t \in last.arg : transitions[t].probability < PDenom

\* ---------------------------------------------------------------- C11
\* Every rule of a constructed machine has a probability in (0, 1].
RulesInRange == \A t \in rules : t \in InRange

\* C11: a Transition whose probability is at most 0 or above 1 is not part of
\* any successfully constructed machine: every rule in the index of a
\* constructed machine has 0 < probability <= 1.
C11_ProbabilityInRange ==
    constructed =>
        /\ RulesInRange
        /\ \A k \in States \X Events : \A i \in 1..Len(valid_transitions[k]) :
              valid_transitions[k][i] \in InRange

\* ---------------------------------------------------------------- C12
\* C12: constructing a machine whose rules is the empty set fails, so every
\* constructed machine has at least one rule in its index.
C12_RulesNonEmpty ==
    /\ (last.op = "construct" /\ last.arg = {}) => last.raised # ""
    /\ constructed =>
          /\ rules # {}
          /\ \E k \in States \X Events : valid_transitions[k] # <<>>

\* ---------------------------------------------------------------- C13
\* The step replaces the machine by unpack(pack(machine)).
IsRoundTrip == last'.op = "unpack"

\* The four state fields come back equal by value.
FieldsRestored ==
    /\ current' = current
    /\ previous' = previous
    /\ next' = next
    /\ initial_state' = initial_state

\* C13 as stated: unpack(pack(machine)) has the original's current, previous,
\* next and initial_state, and behaves like the original on every later
\* input given the same draws: for every state and event the same draw
\* resolves to the same Transition.
C13_RoundTripBehavesAlike ==
    [][ IsRoundTrip
        => /\ FieldsRestored
           /\ \A k \in States \X Events : \A r \in 0..(PDenom - 1) :
                 Resolve(valid_transitions'[k], r) = Resolve(valid_transitions[k], r) ]_vars

\* C13 amended: unpack(pack(machine)) has the original's current, previous,
\* next and initial_state (a next left set by a cancelled event included) and
\* the original's rules, and it has no event hook; every state and event
\* has the same candidates as before, so an input with at most one candidate
\* resolves as in the original, and so does every input when the index lists
\* the candidates in the original's order.
C13_RoundTripRestoresFields ==
    [][ IsRoundTrip
        => /\ FieldsRestored
           /\ rules' = rules
           /\ \A e \in Events : event_hooks'[e] = <<>>
           /\ \A k \in States \X Events :
                 /\ Range(valid_transitions'[k]) = Range(valid_transitions[k])
                 /\ Len(valid_transitions'[k]) = Len(valid_transitions[k])
                 /\ Len(valid_transitions[k]) <= 1
                    => Resolve(valid_transitions'[k], 0) = Resolve(valid_transitions[k], 0) ]_vars

\* A machine unpacked after a commit and a cancelled event: previous and next
\* are set, and the current state has two candidates.
C13_Witness ==
    /\ last.op = "unpack"
    /\ previous \in States /\ next \in States /\ next # current
    /\ last.packed.next.islist /\ last.packed.current.islist
    /\ Len(valid_transitions[<<current, "e">>]) = 2

\* ---------------------------------------------------------------- C14
\* Every event hook the last input called returned, and none returned False.
NoneFalse ==
    \A i \in 1..Len(last.calls) :
        last.calls[i].kind = "event"
        => ~Raises(last.calls[i].hook) /\ HookReturn(last.calls[i].hook) # "False"

\* Some event hook the last input called returned 0.
SomeZero ==
    \E i \in 1..Len(last.calls) :
        last.calls[i].kind = "event" /\ HookReturn(last.calls[i].hook) = "0"

\* C14: when every event hook registered for the event returns a value that
\* is not the boolean False (None, True, or a falsy value such as 0), input(event)
\* is not cancelled: it commits the selected transition, if any.
C14_OnlyFalseCancels ==
    (IsInput /\ NoneFalse /\ last.selected # 0)
    => /\ current = transitions[last.selected].to_state
       /\ previous = last.cur0
       /\ next = None
       /\ hooklists[transitions[last.selected].hooks] # <<>>
          => TransitionHooksCalled # <<>>

\* An input whose event hook returned 0 and that committed a change of state.
C14_Witness ==
    /\ IsInput /\ NoneFalse /\ SomeZero
    /\ last.selected # 0 /\ last.raised = ""
    /\ current # last.cur0

\* ---------------------------------------------------------------- C15
\* The input of this step called a hook of the given kind that raised.
HookRaised(l, kind) ==
    \E i \in 1..Len(l.calls) : l.calls[i].kind = kind /\ Raises(l.calls[i].hook)

\* A list of hooks up to its first hook that raises, that hook included.
ThroughFirstRaiser(hs) ==
    LET i == CHOOSE j \in 1..Len(hs) : Raises(hs[j]) /\ \A m \in 1..(j-1) : ~Raises(hs[m])
    IN  SubSeq(hs, 1, i)

\* C15: when a hook of the selected Transition raises during input(), the
\* exception reaches the caller, current is the Transition's to_state,
\* previous the prior current and next null, and the hooks after the raising
\* one are not invoked; when an event hook raises, the exception reaches the
\* caller with current and previous unchanged and no Transition hook invoked.
C15_HookExceptionPropagates ==
    [][ /\ (last'.op = "input" /\ HookRaised(last', "transition"))
           => /\ last'.raised = "HookError"
              /\ current' = transitions[last'.selected].to_state
              /\ previous' = current
              /\ next' = None
              /\ TransitionHooksCalled' =
                    ThroughFirstRaiser(hooklists[transitions[last'.selected].hooks])
        /\ (last'.op = "input" /\ HookRaised(last', "event"))
           => /\ last'.raised = "HookError"
              /\ current' = current
              /\ previous' = previous
              /\ EventHooksCalled' = ThroughFirstRaiser(event_hooks[last'.event])
              /\ TransitionHooksCalled' = <<>> ]_vars

\* A Transition hook raised after the commit of a change of state, with a
\* hook behind it in the list that was not invoked.
C15_Witness ==
    /\ IsInput /\ last.raised = "HookError" /\ HookRaised(last, "transition")
    /\ current # last.cur0 /\ previous = last.cur0
    /\ Len(TransitionHooksCalled) < Len(hooklists[transitions[last.selected].hooks])

\* ---------------------------------------------------------------- C16
\* The last input committed a Transition and returned.
Committed == IsInput /\ last.raised = "" /\ last.selected # 0 /\ ~Vetoed

\* C16: within one input() the hooks of the selected Transition are invoked
\* after the state mutation, after every event hook, in insertion order, each
\* once; when each of them runs current is the Transition's to_state,
\* previous the state before the event and next null.
C16_HooksSeeTheNewState ==
    Committed
    => /\ TransitionHooksCalled = hooklists[transitions[last.selected].hooks]
       /\ \A i, j \in 1..Len(last.calls) :
             (last.calls[i].kind = "event" /\ last.calls[j].kind = "transition") => i < j
       /\ \A i \in 1..Len(last.calls) :
             last.calls[i].kind = "transition"
             => /\ last.calls[i].tid = last.selected
                /\ last.calls[i].cur = transitions[last.selected].to_state
                /\ last.calls[i].cur = current
                /\ last.calls[i].prev = last.cur0
                /\ last.calls[i].prev = previous
                /\ last.calls[i].nxt = None

\* A commit of a change of state that invoked two different hooks of the
\* Transition.
C16_Witness ==
    /\ Committed /\ current # last.cur0
    /\ Len(TransitionHooksCalled) = 2
    /\ TransitionHooksCalled[1] # TransitionHooksCalled[2]

\* ---------------------------------------------------------------- C17
\* What C17 says of one input: every hook registered for its event was
\* invoked once, in insertion order, with current and previous as they were
\* before the call, and before any Transition hook; no hook of another event
\* was invoked.
EventHooksRan ==
    /\ EventHooksCalled = event_hooks[last.event]
    /\ \A i \in 1..Len(last.calls) :
          last.calls[i].kind = "event"
          => /\ last.calls[i].ev = last.event
             /\ last.calls[i].cur = last.cur0
             /\ \A j \in 1..Len(last.calls) : last.calls[j].kind = "transition" => i < j

\* C17: on every input(event) call every event hook registered for the event
\* is invoked once, in insertion order, before any change to current or
\* previous and before any Transition hook, also after an earlier one has
\* returned False and when (current, event) has no candidate; hooks of other
\* events are not invoked.
C17_EveryEventHookRuns == IsInput => EventHooksRan

\* The same for the inputs that do not end in the AttributeError of line 241.
C17_ExceptTailDraw == (IsInput /\ last.raised # "AttributeError") => EventHooksRan

\* ---------------------------------------------------------------- C18
\* The hooks of Transition object t.
HooksOf(t) == hooklists[transitions[t].hooks]

\* C18: hooks are owned per Transition: adding a hook to one Transition
\* leaves the hook list of every other Transition unchanged, Transitions
\* created with the default hook list included, and an input invokes from
\* the hooks of Transitions only those of the Transition it commits.
C18_HooksOwnedPerTransition ==
    [][ /\ (last'.op = "add_transition_hook" /\ last'.raised = "")
           => \A u \in Objects \ {last'.tid} : HooksOf(u)' = HooksOf(u)
        /\ last'.op = "input"
           => \A i \in 1..Len(last'.calls) :
                 last'.calls[i].kind = "transition" => last'.calls[i].tid = last'.selected
      ]_vars

\* ---------------------------------------------------------------- C19
\* C19: previous is null after construction and changes only when an input
\* commits a transition, to the value current had before that commit;
\* cancelled inputs, inputs without candidate and hook add/remove operations
\* leave previous as it was.
C19_PreviousTracksLastCommit ==
    [][ IF last'.op = "construct"
        THEN last'.raised = "" => previous' = None
        ELSE IF Committed'
        THEN previous' = last'.cur0 /\ last'.cur0 = current
        ELSE previous' = previous ]_vars

\* A cancelled input, after a commit, that would have changed the state:
\* previous is still the state before the last commit.
C19_Witness ==
    /\ IsInput /\ Vetoed /\ last.selected # 0
    /\ transitions[last.selected].to_state # current
    /\ previous \in States /\ previous # current

\* ---------------------------------------------------------------- C20
\* The fields of the machine and its rule index.
machine == <<current, previous, next, initial_state, rules, valid_transitions>>

\* C20: would, can, add_event_hook, remove_event_hook, add_transition_hook,
\* remove_transition_hook and pack leave current, previous, next,
\* initial_state and the rule index unchanged, would, can and pack leaving
\* the hooks unchanged too; input changes neither initial_state nor the rule
\* index; would(event) returns the candidates of (current, event), and
\* can(event) is true exactly when that is non-empty, i.e. when a rule for
\* (current, event) exists.
C20_OnlyInputMutates ==
    [][ /\ last'.op \in {"would", "can", "pack", "add_event_hook", "remove_event_hook",
                          "add_transition_hook", "remove_transition_hook"}
           => machine' = machine
        /\ last'.op \in {"would", "can", "pack"}
           => hooklists' = hooklists /\ event_hooks' = event_hooks
        /\ last'.op = "input"
           => /\ initial_state' = initial_state
              /\ rules' = rules
              /\ valid_transitions' = valid_transitions
        /\ last'.op = "would"
           => /\ Range(last'.cands) = RulesFor(current, last'.event)
              /\ Len(last'.cands) = Cardinality(RulesFor(current, last'.event))
        /\ last'.op = "can"
           => /\ last'.truth <=> (would(last'.event) # <<>>)
              /\ last'.truth <=> (RulesFor(current, last'.event) # {})
      ]_vars

\* can answered False for an event without rule in a state that has rules
\* for another event, on a machine that has committed a transition.
C20_Witness ==
    /\ last.op = "can" /\ ~last.truth
    /\ RulesFor(current, "e") # {}
    /\ previous \in States

\* ---------------------------------------------------------------- C21
\* The states a machine can be in by its declaration.
DeclaredStates == {initial_state} \cup {transitions[t].to_state : t \in rules}

\* C21: with hooks that do not call input(), each input(event) commits at
\* most one transition, and whenever it changes current or previous some
\* rule of the machine leads from the current before the call, on the given
\* event, to the current after the call; so current is always initial_state
\* or the to_state of a rule, and never null.
C21_ChangesFollowRules ==
    [][ /\ last'.op = "input"
           => /\ (current' # current \/ previous' # previous)
                 => /\ previous' = current
                    /\ \E t \in rules :
                          /\ transitions[t].from_state = current
                          /\ transitions[t].on_event = last'.event
                          /\ transitions[t].to_state = current'
              /\ \A i \in 1..Len(last'.calls) :
                    last'.calls[i].kind = "transition" => last'.calls[i].tid = last'.selected
        /\ constructed' => (current' \in DeclaredStates' /\ current' # None)
      ]_vars

\* An input with two candidates committed a change of state, to a state that
\* is not the initial one.
C21_Witness ==
    /\ Committed /\ last.ncand = 2
    /\ current # last.cur0 /\ current # initial_state

\* ---------------------------------------------------------------- C22
\* The last call was an input() during which an event hook called input().
Reentered == IsInput /\ last.nested # <<>>

\* The last of the input() calls made by hooks during the last input().
LastNested == last.nested[Len(last.nested)]

\* The number of input() calls made by the first i hooks the last input called.
ReentriesUpTo(i) ==
    Cardinality({j \in 1..i : last.calls[j].kind = "event" /\ Reenters(last.calls[j].hook)})

====
